---------------------------- MODULE Spec2Model ----------------------------
(***************************************************************************)
(* A model of char_rbm/sampling.py: the scoped length constraint           *)
(* (shrink_model), the sampling loop (sample_model / _sample_model), the   *)
(* default recorder (print_sample_callback) and the chunks / uniform_chars *)
(* branch of starting_visible_configs.                                     *)
(*                                                                         *)
(* Numbers.  The visible biases and BIG_NUMBER are floats in the source;   *)
(* here they are integers, so "+= BIG_NUMBER" is exact.  A temperature is  *)
(* kept exactly as the pair [lin, exp] standing for                        *)
(*     (lin / iters) * temp_decay ^ exp                                    *)
(* so that "temp += temp_delta" adds (final_temp - start_temp) to lin and  *)
(* "temp *= temp_decay" adds 1 to exp.                                     *)
(*                                                                         *)
(* The chain.  model.gibbs is stochastic and external; the batch it        *)
(* returns at its k-th call is named k (the initial batch is 0).           *)
(*                                                                         *)
(* Inputs.  Checkpoint indices are iteration indices, 0 or more, in        *)
(* ascending lists; start_temp is positive.  The chunks initializer works  *)
(* row by row, and one row is modelled.                                    *)
(***************************************************************************)
EXTENDS Integers, Sequences, FiniteSets

VARIABLES
    \* the module-level flag and the arguments of sample_model
    LINEAR_ANNEAL, iters, sample_iter_indices, start_temp, final_temp,
    callback, sample_energy, min_length, max_length,
    \* the model's visible biases, and their value when sample_model was called
    intercept_visible_, pre_intercept,
    \* shrink_model: self.prev_biases and whether the with-block is open
    prev_biases, in_scope,
    \* _sample_model's locals
    pc, i, temp, next_sample_metaindex, samples, vis,
    \* the calls made on model.gibbs and on the callback, in order
    events,
    \* how the call ended
    err, result,
    \* starting_visible_configs (chunks / uniform_chars)
    cpc, init_method, maxlen, char_indices, lengths, onehot

samplerVars == <<LINEAR_ANNEAL, iters, sample_iter_indices, start_temp,
                 final_temp, callback, sample_energy, min_length, max_length,
                 intercept_visible_, pre_intercept, prev_biases, in_scope,
                 pc, i, temp, next_sample_metaindex, samples, vis, events,
                 err, result>>

chunkVars == <<cpc, init_method, maxlen, char_indices, lengths, onehot>>

vars == <<samplerVars, chunkVars>>

---------------------------------------------------------------------------
(* Bounds of the model *)

\* codec.maxlen of the model whose biases shrink_model adjusts
MaxLen == 3

\* the largest iters, and the largest checkpoint index
MaxIters == 3

\* the longest checkpoint list
MaxCheckpoints == 2

\* the number of chains (rows of vis)
NumChains == 2

\* the largest codec.maxlen the chunks initializer is run with
MaxChunkLen == 130

---------------------------------------------------------------------------
(* Program constants *)

BIG_NUMBER == 3

\* codec.nchars and codec.char_lookup[codec.filler] of the modelled codec
nchars == 2

padidx == 1

---------------------------------------------------------------------------
(* Helpers *)

Last(s) == s[Len(s)]

\* Python's range(a, b) as a set
Range(a, b) == a..(b - 1)

StrictlyIncreasing(s) == \A a, b \in 1..Len(s) : a < b => s[a] < s[b]

NonDecreasing(s) == \A a, b \in 1..Len(s) : a < b => s[a] <= s[b]

\* codec.nchars * posn + padidx
PadIndex(posn) == nchars * posn + padidx

---------------------------------------------------------------------------
(* shrink_model *)

\* __init__'s two assertions
ShrinkAsserts(minl, maxl) ==
    /\ 1 <= maxl /\ maxl <= MaxLen
    /\ 0 <= minl /\ minl <= MaxLen

\* __enter__: self.prev_biases
SavedBiases(iv) == [p \in 1..MaxLen |-> iv[PadIndex(p - 1)]]

\* __enter__ with a fault: the padding-on range starts one position late
ShrunkBiasesLate(iv, minl, maxl) ==
    LET off == [k \in DOMAIN iv |->
                  IF \E p \in Range(0, minl) : k = PadIndex(p)
                  THEN iv[k] - BIG_NUMBER ELSE iv[k]]
    IN  [k \in DOMAIN iv |->
            IF \E p \in Range(maxl + 1, MaxLen) : k = PadIndex(p)
            THEN off[k] + BIG_NUMBER ELSE off[k]]

\* __enter__: the two loops over the padding symbol's biases
ShrunkBiases(iv, minl, maxl) ==
    LET off == [k \in DOMAIN iv |->
                  IF \E p \in Range(0, minl) : k = PadIndex(p)
                  THEN iv[k] - BIG_NUMBER ELSE iv[k]]
    IN  [k \in DOMAIN iv |->
            IF \E p \in Range(maxl, MaxLen) : k = PadIndex(p)
            THEN off[k] + BIG_NUMBER ELSE off[k]]

\* __exit__ with a fault: enumerate's position used one-based
RestoredBiasesOneBased(iv, prev) ==
    [k \in DOMAIN iv |->
        IF \E p \in 1..Len(prev) : k = PadIndex(p)
        THEN prev[CHOOSE p \in 1..Len(prev) : k = PadIndex(p)]
        ELSE iv[k]]

\* __exit__: every saved bias written back
RestoredBiases(iv, prev) ==
    [k \in DOMAIN iv |->
        IF \E p \in 1..Len(prev) : k = PadIndex(p - 1)
        THEN prev[CHOOSE p \in 1..Len(prev) : k = PadIndex(p - 1)]
        ELSE iv[k]]

---------------------------------------------------------------------------
(* External collaborators *)

\* model.gibbs(vis, temp): the next batch of the chain
Gibbs(v, t) == v + 1

\* [codec.decode(v, pretty=True, strict=False) for v in vis]
DecodeAll(v) == [r \in 1..NumChains |-> <<"str", v, r>>]

\* model._free_energy(vis): one value per row
FreeEnergy(v) == [r \in 1..NumChains |-> (v + r) % 3]

---------------------------------------------------------------------------
(* print_sample_callback and the other callbacks *)

\* "".join(sample_strings)
JoinStrings(strings) == [kind |-> "plain", items |-> strings]

\* "".join('{} \t {:.2f}'.format(t[0], t[1]) for t in zip(sample_strings, energy))
JoinPairs(strings, energy) ==
    [kind |-> "pairs",
     items |-> [r \in 1..Len(strings) |-> <<strings[r], energy[r]>>]]

NoEnergy == <<"None">>

\* if callback is None: callback = lambda: None
EffectiveCallback(cb) == IF cb = "None" THEN "lambda: None" ELSE cb

\* the exception a call callback(sample_strings, i[, energy]) raises, or "none"
CallbackError(cb, energy) ==
    CASE cb = "print_sample_callback" ->
            \* energy is None: zip(sample_strings, None)
            IF energy = NoEnergy THEN "TypeError" ELSE "none"
      [] cb = "lambda: None" -> "TypeError"   \* takes no positional argument
      [] cb = "user_raising" -> "UserError"
      [] OTHER -> "none"

\* what the call returns when it does not raise
CallbackValue(cb, strings, energy) ==
    CASE cb = "print_sample_callback" ->
            IF energy = NoEnergy
            THEN JoinPairs(strings, energy)
            ELSE JoinStrings(strings)
      [] OTHER -> [kind |-> "None", items |-> <<>>]

---------------------------------------------------------------------------
(* _sample_model *)

\* temp_delta = (final_temp - start_temp) / iters, in units of 1/iters
TempDelta(st, ft) == ft - st

\* the annealing step with a fault: the difference is subtracted
NextTempSubtract(t, st, ft, linear) ==
    IF linear # 0
    THEN [lin |-> t.lin - TempDelta(st, ft), exp |-> t.exp]
    ELSE [lin |-> t.lin, exp |-> t.exp + 1]

\* if LINEAR_ANNEAL: temp += temp_delta  else: temp *= temp_decay
NextTemp(t, st, ft, linear) ==
    IF linear # 0
    THEN [lin |-> t.lin + TempDelta(st, ft), exp |-> t.exp]
    ELSE [lin |-> t.lin, exp |-> t.exp + 1]

\* the break test with a fault: the loop stops one checkpoint early
LoopBreaksEarly(nsm, sii) == nsm >= Len(sii) - 1

\* if next_sample_metaindex == len(sample_iter_indices): break
LoopBreaks(nsm, sii) == nsm = Len(sii)

\* the checkpoint test with a fault: the index is compared one iteration early
IsSampleIterEarly(idx, sii, nsm) == idx + 1 = sii[nsm + 1]

\* i == sample_iter_indices[next_sample_metaindex]
IsSampleIter(idx, sii, nsm) == idx = sii[nsm + 1]

\* an exception leaves through shrink_model.__exit__ when the with-block is open
RaiseTo(e) ==
    /\ err' = e
    /\ pc' = IF in_scope THEN "exit" ELSE "raised"

\* sample_model, lines 147-158: the callback default, the starting batch and
\* the choice of the constrained or the plain call
CallSampleModel ==
    /\ pc = "call"
    /\ callback' = EffectiveCallback(callback)
    /\ vis' = 0
    /\ IF min_length # 0 \/ max_length # 0
       THEN /\ max_length' = IF max_length = 0 THEN MaxLen ELSE max_length
            /\ pc' = "with"
       ELSE /\ max_length' = max_length
            /\ pc' = "setup"
    /\ UNCHANGED <<LINEAR_ANNEAL, iters, sample_iter_indices, start_temp,
                   final_temp, sample_energy, min_length, intercept_visible_,
                   pre_intercept, prev_biases, in_scope, i, temp,
                   next_sample_metaindex, samples, events, err, result>>
    /\ UNCHANGED chunkVars

\* shrink_model.__init__: an assertion fails before anything is changed
ShrinkInitFails ==
    /\ pc = "with"
    /\ ~ShrinkAsserts(min_length, max_length)
    /\ err' = "AssertionError"
    /\ pc' = "raised"
    /\ UNCHANGED <<LINEAR_ANNEAL, iters, sample_iter_indices, start_temp,
                   final_temp, callback, sample_energy, min_length, max_length,
                   intercept_visible_, pre_intercept, prev_biases, in_scope, i,
                   temp, next_sample_metaindex, samples, vis, events, result>>
    /\ UNCHANGED chunkVars

\* shrink_model.__init__ passes and __enter__ runs
ShrinkEnter ==
    /\ pc = "with"
    /\ ShrinkAsserts(min_length, max_length)
    /\ prev_biases' = SavedBiases(intercept_visible_)
    /\ intercept_visible_' =
           ShrunkBiases(intercept_visible_, min_length, max_length)
    /\ in_scope' = TRUE
    /\ pc' = "setup"
    /\ UNCHANGED <<LINEAR_ANNEAL, iters, sample_iter_indices, start_temp,
                   final_temp, callback, sample_energy, min_length, max_length,
                   pre_intercept, i, temp, next_sample_metaindex, samples, vis,
                   events, err, result>>
    /\ UNCHANGED chunkVars

\* _sample_model, lines 168-172, with iters = 0: 1 / iters raises
SetupDivides ==
    /\ pc = "setup"
    /\ iters = 0
    /\ RaiseTo("ZeroDivisionError")
    /\ UNCHANGED <<LINEAR_ANNEAL, iters, sample_iter_indices, start_temp,
                   final_temp, callback, sample_energy, min_length, max_length,
                   intercept_visible_, pre_intercept, prev_biases, in_scope, i,
                   temp, next_sample_metaindex, samples, vis, events, result>>
    /\ UNCHANGED chunkVars

\* _sample_model, lines 168-172
Setup ==
    /\ pc = "setup"
    /\ iters # 0
    /\ temp' = [lin |-> start_temp * iters, exp |-> 0]
    /\ next_sample_metaindex' = 0
    /\ samples' = <<>>
    /\ i' = 0
    /\ pc' = "for"
    /\ UNCHANGED <<LINEAR_ANNEAL, iters, sample_iter_indices, start_temp,
                   final_temp, callback, sample_energy, min_length, max_length,
                   intercept_visible_, pre_intercept, prev_biases, in_scope,
                   vis, events, err, result>>
    /\ UNCHANGED chunkVars

\* line 173: range(iters) is exhausted
LoopExhausted ==
    /\ pc = "for"
    /\ i >= iters
    /\ pc' = "return"
    /\ UNCHANGED <<LINEAR_ANNEAL, iters, sample_iter_indices, start_temp,
                   final_temp, callback, sample_energy, min_length, max_length,
                   intercept_visible_, pre_intercept, prev_biases, in_scope, i,
                   temp, next_sample_metaindex, samples, vis, events, err,
                   result>>
    /\ UNCHANGED chunkVars

\* line 174: sample_iter_indices[next_sample_metaindex] is out of range
LookupFails ==
    /\ pc = "for"
    /\ i < iters
    /\ next_sample_metaindex >= Len(sample_iter_indices)
    /\ RaiseTo("IndexError")
    /\ UNCHANGED <<LINEAR_ANNEAL, iters, sample_iter_indices, start_temp,
                   final_temp, callback, sample_energy, min_length, max_length,
                   intercept_visible_, pre_intercept, prev_biases, in_scope, i,
                   temp, next_sample_metaindex, samples, vis, events, result>>
    /\ UNCHANGED chunkVars

\* line 174: this iteration is no checkpoint
NoSample ==
    /\ pc = "for"
    /\ i < iters
    /\ next_sample_metaindex < Len(sample_iter_indices)
    /\ ~IsSampleIter(i, sample_iter_indices, next_sample_metaindex)
    /\ pc' = "gibbs"
    /\ UNCHANGED <<LINEAR_ANNEAL, iters, sample_iter_indices, start_temp,
                   final_temp, callback, sample_energy, min_length, max_length,
                   intercept_visible_, pre_intercept, prev_biases, in_scope, i,
                   temp, next_sample_metaindex, samples, vis, events, err,
                   result>>
    /\ UNCHANGED chunkVars

\* lines 175-186: a checkpoint; the callback raises
TakeSampleRaises ==
    /\ pc = "for"
    /\ i < iters
    /\ next_sample_metaindex < Len(sample_iter_indices)
    /\ IsSampleIter(i, sample_iter_indices, next_sample_metaindex)
    /\ LET energy == IF sample_energy THEN FreeEnergy(vis) ELSE NoEnergy
       IN  /\ CallbackError(callback, energy) # "none"
           /\ events' = Append(events,
                  [op |-> "callback", i |-> i, vis |-> vis, temp |-> temp,
                   strings |-> DecodeAll(vis), energy |-> energy,
                   value |-> [kind |-> "raised", items |-> <<>>]])
           /\ RaiseTo(CallbackError(callback, energy))
    /\ UNCHANGED <<LINEAR_ANNEAL, iters, sample_iter_indices, start_temp,
                   final_temp, callback, sample_energy, min_length, max_length,
                   intercept_visible_, pre_intercept, prev_biases, in_scope, i,
                   temp, next_sample_metaindex, samples, vis, result>>
    /\ UNCHANGED chunkVars

\* lines 175-186: a checkpoint; the callback returns, the batch is recorded
\* and the loop breaks after the last checkpoint
TakeSample ==
    /\ pc = "for"
    /\ i < iters
    /\ next_sample_metaindex < Len(sample_iter_indices)
    /\ IsSampleIter(i, sample_iter_indices, next_sample_metaindex)
    /\ LET energy == IF sample_energy THEN FreeEnergy(vis) ELSE NoEnergy
           sample_strings == DecodeAll(vis)
       IN  /\ CallbackError(callback, energy) = "none"
           /\ events' = Append(events,
                  [op |-> "callback", i |-> i, vis |-> vis, temp |-> temp,
                   strings |-> sample_strings, energy |-> energy,
                   value |-> CallbackValue(callback, sample_strings, energy)])
           /\ samples' = Append(samples, sample_strings)
    /\ next_sample_metaindex' = next_sample_metaindex + 1
    /\ pc' = IF LoopBreaks(next_sample_metaindex', sample_iter_indices)
             THEN "return" ELSE "gibbs"
    /\ UNCHANGED <<LINEAR_ANNEAL, iters, sample_iter_indices, start_temp,
                   final_temp, callback, sample_energy, min_length, max_length,
                   intercept_visible_, pre_intercept, prev_biases, in_scope, i,
                   temp, vis, err, result>>
    /\ UNCHANGED chunkVars

\* lines 187-191: the transition and the annealing step, then the next i
GibbsStep ==
    /\ pc = "gibbs"
    /\ events' = Append(events,
           [op |-> "gibbs", i |-> i, vis |-> vis, temp |-> temp,
            strings |-> <<>>, energy |-> NoEnergy,
            value |-> [kind |-> "None", items |-> <<>>]])
    /\ vis' = Gibbs(vis, temp)
    /\ temp' = NextTemp(temp, start_temp, final_temp, LINEAR_ANNEAL)
    /\ i' = i + 1
    /\ pc' = "for"
    /\ UNCHANGED <<LINEAR_ANNEAL, iters, sample_iter_indices, start_temp,
                   final_temp, callback, sample_energy, min_length, max_length,
                   intercept_visible_, pre_intercept, prev_biases, in_scope,
                   next_sample_metaindex, samples, err, result>>
    /\ UNCHANGED chunkVars

\* line 192 with no batch recorded: samples[-1] raises
ReturnFails ==
    /\ pc = "return"
    /\ samples = <<>>
    /\ RaiseTo("IndexError")
    /\ UNCHANGED <<LINEAR_ANNEAL, iters, sample_iter_indices, start_temp,
                   final_temp, callback, sample_energy, min_length, max_length,
                   intercept_visible_, pre_intercept, prev_biases, in_scope, i,
                   temp, next_sample_metaindex, samples, vis, events, result>>
    /\ UNCHANGED chunkVars

\* line 192: return vis, samples[-1]
Return ==
    /\ pc = "return"
    /\ samples # <<>>
    /\ result' = [vis |-> vis, samples |-> Last(samples)]
    /\ pc' = IF in_scope THEN "exit" ELSE "returned"
    /\ UNCHANGED <<LINEAR_ANNEAL, iters, sample_iter_indices, start_temp,
                   final_temp, callback, sample_energy, min_length, max_length,
                   intercept_visible_, pre_intercept, prev_biases, in_scope, i,
                   temp, next_sample_metaindex, samples, vis, events, err>>
    /\ UNCHANGED chunkVars

\* shrink_model.__exit__, on a return and on an exception alike; it returns
\* None, so an exception goes on to the caller
ShrinkExit ==
    /\ pc = "exit"
    /\ intercept_visible_' = RestoredBiases(intercept_visible_, prev_biases)
    /\ in_scope' = FALSE
    /\ pc' = IF err = "none" THEN "returned" ELSE "raised"
    /\ UNCHANGED <<LINEAR_ANNEAL, iters, sample_iter_indices, start_temp,
                   final_temp, callback, sample_energy, min_length, max_length,
                   pre_intercept, prev_biases, i, temp, next_sample_metaindex,
                   samples, vis, events, err, result>>
    /\ UNCHANGED chunkVars

---------------------------------------------------------------------------
(* starting_visible_configs, the chunks / uniform_chars branch, for one row *)

\* numpy's astype('int8') of a float whose integer part is t
Int8(t) == ((t + 128) % 256) - 128

\* np.eye(nchars)[c]
Eye(c) == [d \in 0..(nchars - 1) |-> IF d = c THEN 1 ELSE 0]

\* the rows np.random.randint(0, nchars, (n, maxlen)) is drawn from here
CharRows(m) ==
    {[posn \in 0..(m - 1) |-> (a * posn + b) % nchars] :
        a \in 0..(nchars - 1), b \in 0..(nchars - 1)}

\* line 109: char_indices
DrawChars ==
    /\ cpc = "start"
    /\ char_indices' \in CharRows(maxlen)
    /\ cpc' = IF init_method = "chunks" THEN "lengths" ELSE "eye"
    /\ UNCHANGED <<init_method, maxlen, lengths, onehot>>
    /\ UNCHANGED samplerVars

\* lines 112-117: the clipped normal draw lies in [1, maxlen]; t is its
\* integer part, which the int8 cast keeps or wraps
Truncate ==
    /\ cpc = "lengths"
    /\ \E t \in 1..maxlen :
          /\ lengths' = Int8(t)
          /\ char_indices' =
                [posn \in DOMAIN char_indices |->
                    IF posn >= lengths' THEN padidx ELSE char_indices[posn]]
    /\ cpc' = "eye"
    /\ UNCHANGED <<init_method, maxlen, onehot>>
    /\ UNCHANGED samplerVars

\* line 120: np.eye(nchars)[char_indices.ravel()]
OneHot ==
    /\ cpc = "eye"
    /\ onehot' = [posn \in DOMAIN char_indices |-> Eye(char_indices[posn])]
    /\ cpc' = "done"
    /\ UNCHANGED <<init_method, maxlen, char_indices, lengths>>
    /\ UNCHANGED samplerVars

---------------------------------------------------------------------------
(* The calls of sample_model the model explores *)

\* the model's visible biases before the call: a different value per entry
InitialBiases == [k \in 0..(MaxLen * nchars - 1) |-> 2 * k - 3]

\* ascending checkpoint lists, a repeated index allowed
CheckpointLists ==
    {s \in UNION {[1..n -> 0..MaxIters] : n \in 0..MaxCheckpoints} :
        NonDecreasing(s)}

\* (start_temp, final_temp): constant and cooling
TempPairs == {<<1, 1>>, <<2, 1>>}

Callbacks == {"print_sample_callback", "None", "user", "user_raising"}

NoResult == [vis |-> -1, samples |-> <<>>]

ChunkIdle ==
    /\ cpc = "idle"
    /\ init_method = "none"
    /\ maxlen = 0
    /\ char_indices = <<>>
    /\ lengths = 0
    /\ onehot = <<>>

Init ==
    /\ LINEAR_ANNEAL \in {0, 1}
    /\ iters \in -1..MaxIters
    /\ sample_iter_indices \in CheckpointLists
    /\ \E tp \in TempPairs : start_temp = tp[1] /\ final_temp = tp[2]
    /\ callback \in Callbacks
    /\ sample_energy \in BOOLEAN
    /\ min_length \in 0..(MaxLen + 1)
    /\ max_length \in 0..(MaxLen + 1)
    /\ intercept_visible_ = InitialBiases
    /\ pre_intercept = intercept_visible_
    /\ prev_biases = <<>>
    /\ in_scope = FALSE
    /\ pc = "call"
    /\ i = 0
    /\ temp = [lin |-> 0, exp |-> 0]
    /\ next_sample_metaindex = 0
    /\ samples = <<>>
    /\ vis = 0
    /\ events = <<>>
    /\ err = "none"
    /\ result = NoResult
    /\ ChunkIdle

Next ==
    \/ CallSampleModel
    \/ ShrinkInitFails
    \/ ShrinkEnter
    \/ SetupDivides
    \/ Setup
    \/ LoopExhausted
    \/ LookupFails
    \/ NoSample
    \/ TakeSampleRaises
    \/ TakeSample
    \/ GibbsStep
    \/ ReturnFails
    \/ Return
    \/ ShrinkExit

Spec == Init /\ [][Next]_vars

---------------------------------------------------------------------------
(* The calls of starting_visible_configs the model explores *)

SamplerIdle ==
    /\ LINEAR_ANNEAL = 0
    /\ iters = 0
    /\ sample_iter_indices = <<>>
    /\ start_temp = 1
    /\ final_temp = 1
    /\ callback = "print_sample_callback"
    /\ sample_energy = FALSE
    /\ min_length = 0
    /\ max_length = 0
    /\ intercept_visible_ = InitialBiases
    /\ pre_intercept = intercept_visible_
    /\ prev_biases = <<>>
    /\ in_scope = FALSE
    /\ pc = "idle"
    /\ i = 0
    /\ temp = [lin |-> 0, exp |-> 0]
    /\ next_sample_metaindex = 0
    /\ samples = <<>>
    /\ vis = 0
    /\ events = <<>>
    /\ err = "none"
    /\ result = NoResult

InitChunks ==
    /\ SamplerIdle
    /\ cpc = "start"
    /\ init_method \in {"chunks", "uniform_chars"}
    /\ maxlen \in 1..MaxChunkLen
    /\ char_indices = <<>>
    /\ lengths = 0
    /\ onehot = <<>>

NextChunks ==
    \/ DrawChars
    \/ Truncate
    \/ OneHot

SpecChunks == InitChunks /\ [][NextChunks]_vars

---------------------------------------------------------------------------
(* What the claims speak of *)

Terminal == pc \in {"returned", "raised"}

CallbackEvents == SelectSeq(events, LAMBDA e : e.op = "callback")

GibbsEvents == SelectSeq(events, LAMBDA e : e.op = "gibbs")

\* the callback, as sample_model calls it, returns normally
CallbackReturns ==
    CallbackError(EffectiveCallback(callback),
                  IF sample_energy THEN FreeEnergy(0) ELSE NoEnergy) = "none"

\* the call gets as far as _sample_model: no length constraint, or one that
\* shrink_model.__init__ accepts
LengthsAccepted ==
    \/ min_length = 0 /\ max_length = 0
    \/ ShrinkAsserts(min_length, IF max_length = 0 THEN MaxLen ELSE max_length)

\* the checkpoint indices below iters, in the list's order
ReachedCheckpoints == SelectSeq(sample_iter_indices, LAMBDA c : c < iters)

EventIters(es) == [k \in 1..Len(es) |-> es[k].i]

---------------------------------------------------------------------------
(* C1: when sample_model is over, by a return or by an exception raised in  *)
(* the loop, every entry of intercept_visible_ has the value it had when    *)
(* sample_model was called.                                                 *)
C1_BiasesRestored == Terminal => intercept_visible_ = pre_intercept

\* an exception from the loop left a with-block that had changed the biases
C1_Witness ==
    /\ pc = "raised"
    /\ err \in {"IndexError", "TypeError", "UserError"}
    /\ prev_biases # <<>>
    /\ ShrunkBiases(pre_intercept, min_length, max_length) # pre_intercept

---------------------------------------------------------------------------
\* the padding bias at posn is its value before the call plus d
PadBiasIs(posn, d) ==
    intercept_visible_[PadIndex(posn)] = pre_intercept[PadIndex(posn)] + d

\* the three ranges of the length constraint, as the claim states them
ThreeRanges ==
    \A posn \in 0..(MaxLen - 1) :
        /\ posn < min_length => PadBiasIs(posn, -BIG_NUMBER)
        /\ posn >= max_length => PadBiasIs(posn, BIG_NUMBER)
        /\ (min_length <= posn /\ posn < max_length) => PadBiasIs(posn, 0)

(* C2, as stated: inside the with-block, for every accepted (min_length,    *)
(* max_length), the padding bias is lowered by BIG_NUMBER below min_length, *)
(* raised by BIG_NUMBER from max_length on, and unchanged in between.       *)
C2_Original ==
    (in_scope /\ ShrinkAsserts(min_length, max_length)) => ThreeRanges

(* C2, amended: the same, for accepted lengths with min_length <=           *)
(* max_length.                                                              *)
C2_ThreeRanges ==
    (in_scope /\ ShrinkAsserts(min_length, max_length)
              /\ min_length <= max_length) => ThreeRanges

\* inside the with-block with all three ranges non-empty
C2_Witness ==
    /\ in_scope
    /\ pc = "for"
    /\ 0 < min_length /\ min_length < max_length /\ max_length < MaxLen

---------------------------------------------------------------------------
(* C3: with a strictly increasing, non-empty checkpoint list whose last     *)
(* index c is below iters and a callback that returns normally, the         *)
(* transition is applied at iterations 0..c-1 and at no other, and the call *)
(* returns the batch that was decoded at iteration c together with its      *)
(* decoded strings.                                                         *)
C3_StopsAtLastCheckpoint ==
    (/\ StrictlyIncreasing(sample_iter_indices)
     /\ sample_iter_indices # <<>>
     /\ Last(sample_iter_indices) < iters
     /\ CallbackReturns
     /\ LengthsAccepted)
    => LET c == Last(sample_iter_indices)
       IN  /\ \A k \in 1..Len(GibbsEvents) :
                  GibbsEvents[k].i = k - 1 /\ k - 1 < c
           /\ Terminal =>
                 /\ pc = "returned"
                 /\ err = "none"
                 /\ Len(GibbsEvents) = c
                 /\ CallbackEvents # <<>>
                 /\ Last(CallbackEvents).i = c
                 /\ result = [vis |-> Last(CallbackEvents).vis,
                              samples |-> Last(CallbackEvents).strings]
                 /\ Last(CallbackEvents).strings
                        = DecodeAll(Last(CallbackEvents).vis)

\* a run with two checkpoints, the last one at iteration 2 or later
C3_Witness ==
    /\ pc = "returned"
    /\ Len(sample_iter_indices) = 2
    /\ StrictlyIncreasing(sample_iter_indices)
    /\ Last(sample_iter_indices) >= 2
    /\ Last(sample_iter_indices) < iters

---------------------------------------------------------------------------
(* C4: with the default recorder print_sample_callback, a checkpoint        *)
(* without energies records the plain concatenation of the strings and does *)
(* not raise; with energies it records each string paired with its energy,  *)
(* in row order.                                                            *)
C4_DefaultRecorder ==
    callback = "print_sample_callback" =>
        /\ err # "TypeError"
        /\ \A k \in 1..Len(CallbackEvents) :
              LET e == CallbackEvents[k]
              IN  e.value = IF sample_energy
                            THEN JoinPairs(e.strings, e.energy)
                            ELSE JoinStrings(e.strings)

---------------------------------------------------------------------------
(* C5: with callback=None no checkpoint raises, and a call that reached a   *)
(* checkpoint returns the final state with the strings of the last          *)
(* checkpoint reached.                                                      *)
C5_NoCallback ==
    EffectiveCallback(callback) = "lambda: None" =>
        /\ err # "TypeError"
        /\ (Terminal /\ CallbackEvents # <<>>) =>
              /\ pc = "returned"
              /\ result = [vis |-> vis,
                           samples |-> Last(CallbackEvents).strings]

---------------------------------------------------------------------------
\* the exceptions of this module that reject a configuration
ConfigurationErrors == {"AssertionError", "ValueError", "BadInitMethodException"}

(* C6: with iters <= 0 the call is rejected with a configuration error      *)
(* before anything has changed: the biases are never adjusted, no           *)
(* transition and no callback is made.                                      *)
C6_NonPositiveItersRejected ==
    iters <= 0 =>
        /\ intercept_visible_ = pre_intercept
        /\ events = <<>>
        /\ pc # "returned"
        /\ pc = "raised" => err \in ConfigurationErrors

---------------------------------------------------------------------------
(* C7: with iters > 0 and a strictly increasing, non-empty checkpoint list  *)
(* whose last index is >= iters, the loop makes all iters transitions,      *)
(* never records the last checkpoint, raises nothing and returns the state  *)
(* after the last transition with the most recently recorded batch.         *)
C7_LastCheckpointBeyondIters ==
    (/\ iters > 0
     /\ StrictlyIncreasing(sample_iter_indices)
     /\ sample_iter_indices # <<>>
     /\ Last(sample_iter_indices) >= iters
     /\ CallbackReturns
     /\ LengthsAccepted
     /\ Terminal)
    => /\ pc = "returned"
       /\ err = "none"
       /\ Len(GibbsEvents) = iters
       /\ \A k \in 1..Len(CallbackEvents) :
              CallbackEvents[k].i # Last(sample_iter_indices)
       /\ result.vis = iters
       /\ result.samples = Last(samples)

---------------------------------------------------------------------------
(* C8: under LINEAR_ANNEAL, for iters > 0, the transition of iteration i    *)
(* gets the temperature start_temp + i * (final_temp - start_temp) / iters, *)
(* at iterations with a checkpoint too; with start_temp = final_temp every  *)
(* transition gets start_temp.  (Temperatures are in units of 1/iters.)     *)
C8_LinearSchedule ==
    (LINEAR_ANNEAL # 0 /\ iters > 0) =>
        \A k \in 1..Len(GibbsEvents) :
            LET e == GibbsEvents[k]
            IN  /\ e.temp.exp = 0
                /\ e.temp.lin
                     = start_temp * iters + e.i * (final_temp - start_temp)
                /\ start_temp = final_temp => e.temp.lin = start_temp * iters

\* a cooling run whose third transition follows a recorded checkpoint
C8_Witness ==
    /\ LINEAR_ANNEAL # 0
    /\ start_temp # final_temp
    /\ Len(GibbsEvents) >= 3
    /\ CallbackEvents # <<>>
    /\ CallbackEvents[1].i < 2

---------------------------------------------------------------------------
\* the sum of the entries of one position's slice
SliceSum(v) == LET S[d \in -1..(nchars - 1)] ==
                       IF d = -1 THEN 0 ELSE S[d - 1] + v[d]
               IN  S[nchars - 1]

(* C9: for the chunks initializer, for every maxlen >= 1, the truncation    *)
(* length applied to the row (after the clip and the int8 cast) lies in     *)
(* 1..maxlen, every position below it holds a one-hot character, every      *)
(* position from it on holds the filler's one-hot vector, and every slice   *)
(* sums to 1.                                                               *)
C9_ChunksTruncation ==
    (cpc = "done" /\ init_method = "chunks") =>
        /\ lengths \in 1..maxlen
        /\ \A posn \in 0..(maxlen - 1) :
              /\ SliceSum(onehot[posn]) = 1
              /\ posn < lengths =>
                    \E c \in 0..(nchars - 1) : onehot[posn] = Eye(c)
              /\ posn >= lengths => onehot[posn] = Eye(padidx)

---------------------------------------------------------------------------
(* C10: with a strictly increasing checkpoint list and a callback that      *)
(* returns normally, the callback is invoked once for each checkpoint index *)
(* below iters, in ascending order, at the iteration of that index and on   *)
(* the state before that iteration's transition, and at no other iteration; *)
(* after every checkpoint but the last of the list the transition of the    *)
(* same iteration follows.                                                  *)
C10_CallbackAtCheckpoints ==
    (StrictlyIncreasing(sample_iter_indices) /\ CallbackReturns
        /\ LengthsAccepted)
    => /\ \A k \in 1..Len(CallbackEvents) :
              /\ k <= Len(ReachedCheckpoints)
              /\ CallbackEvents[k].i = ReachedCheckpoints[k]
              /\ CallbackEvents[k].vis = CallbackEvents[k].i
       /\ \A k \in 1..Len(events) :
              events[k].op = "callback" =>
                 /\ \A j \in 1..(k - 1) : events[j].i < events[k].i
                 /\ k < Len(events) =>
                       events[k + 1].op = "gibbs"
                       /\ events[k + 1].i = events[k].i
                       /\ events[k + 1].vis = events[k].vis
                 /\ (k = Len(events) /\ pc \notin {"gibbs", "for"}) =>
                       events[k].i = Last(sample_iter_indices)
       /\ Terminal => EventIters(CallbackEvents) = ReachedCheckpoints

\* a finished run with two checkpoints recorded and a transition between
C10_Witness ==
    /\ pc = "returned"
    /\ Len(CallbackEvents) = 2
    /\ CallbackEvents[1].i + 1 < CallbackEvents[2].i

====
